---------------------------- MODULE Spec2Model ----------------------------
(***************************************************************************)
(* Model of telegram_document_bot.py: the conversation state machine that  *)
(* collects the parameters of a document (ConversationHandler, handlers    *)
(* start .. cancel), the session bag context.user_data, the amortisation   *)
(* formula monthly_payment, and the build / delivery steps of a document.  *)
(*                                                                         *)
(* A message text is a tuple of one-character strings, so that strip(),    *)
(* replace(), float() and int() are computed on the characters.  Decimal   *)
(* numbers (amounts in euro, rates in percent) are held in hundredths.     *)
(***************************************************************************)
EXTENDS Integers, Sequences, FiniteSets, TLC

----------------------------------------------------------------------------
(* Program constants (lines 30-42).                                        *)

\* DEFAULT_TAN = 7.86, in hundredths of a percent
DEFAULT_TAN == 786
\* DEFAULT_TAEG = 8.30, in hundredths of a percent
DEFAULT_TAEG == 830

\* CHOOSING_DOC, ASK_NAME, ASK_AMOUNT, ASK_DURATION, ASK_TAN, ASK_TAEG = range(6)
CHOOSING_DOC == 0
ASK_NAME == 1
ASK_AMOUNT == 2
ASK_DURATION == 3
ASK_TAN == 4
ASK_TAEG == 5
\* ConversationHandler.END: the conversation's key is dropped; a conversation
\* that never began has no key either.
END == -1

States == {CHOOSING_DOC, ASK_NAME, ASK_AMOUNT, ASK_DURATION, ASK_TAN, ASK_TAEG}

----------------------------------------------------------------------------
(* Characters and str operations.                                          *)

Digits == {"0", "1", "2", "3", "4", "5", "6", "7", "8", "9"}

DigitVal(ch) ==
  CASE ch = "0" -> 0 [] ch = "1" -> 1 [] ch = "2" -> 2 [] ch = "3" -> 3
    [] ch = "4" -> 4 [] ch = "5" -> 5 [] ch = "6" -> 6 [] ch = "7" -> 7
    [] ch = "8" -> 8 [] ch = "9" -> 9

Whitespace == {" "}

\* characters of a bot command after the slash (Telegram's bot_command entity)
CommandChars ==
  Digits \cup {"_", "a", "b", "c", "d", "e", "f", "g", "h", "i", "j", "k", "l",
               "m", "n", "o", "p", "q", "r", "s", "t", "u", "v", "w", "x", "y", "z"}

RECURSIVE LStrip(_)
LStrip(t) ==
  IF t # <<>> /\ Head(t) \in Whitespace THEN LStrip(Tail(t)) ELSE t

RECURSIVE RStrip(_)
RStrip(t) ==
  IF t # <<>> /\ t[Len(t)] \in Whitespace
    THEN RStrip(SubSeq(t, 1, Len(t) - 1)) ELSE t

\* str.strip()
Strip(t) == RStrip(LStrip(t))

\* str.replace(old, new) for a one-character old and a new of length 0 or 1
RECURSIVE Replace(_, _, _)
Replace(t, old, new) ==
  IF t = <<>> THEN <<>>
  ELSE (IF Head(t) = old THEN new ELSE <<Head(t)>>) \o Replace(Tail(t), old, new)

AllDigits(t) == \A i \in 1..Len(t) : t[i] \in Digits

RECURSIVE DigitsVal(_)
DigitsVal(t) ==
  IF t = <<>> THEN 0 ELSE 10 * DigitsVal(SubSeq(t, 1, Len(t) - 1)) + DigitVal(t[Len(t)])

HasSign(t) == t # <<>> /\ Head(t) \in {"+", "-"}
Unsigned(t) == IF HasSign(t) THEN Tail(t) ELSE t
SignOf(t) == IF t # <<>> /\ Head(t) = "-" THEN -1 ELSE 1

\* int(text) succeeds: optional blanks, optional sign, one or more digits
IsIntText(t) ==
  LET u == Unsigned(Strip(t)) IN u # <<>> /\ AllDigits(u)

IntOf(t) == SignOf(Strip(t)) * DigitsVal(Unsigned(Strip(t)))

\* position of the first "." of t, or 0
RECURSIVE DotAt(_, _)
DotAt(t, i) ==
  IF i > Len(t) THEN 0 ELSE IF t[i] = "." THEN i ELSE DotAt(t, i + 1)

IntPart(u) == IF DotAt(u, 1) = 0 THEN u ELSE SubSeq(u, 1, DotAt(u, 1) - 1)
FracPart(u) == IF DotAt(u, 1) = 0 THEN <<>> ELSE SubSeq(u, DotAt(u, 1) + 1, Len(u))

\* float(text) succeeds: optional blanks, optional sign, digits with at most
\* one point and at least one digit.  (Exponents, underscores, inf and nan
\* are spellings that none of the replies of this model uses.)
IsFloatText(t) ==
  LET u == Unsigned(Strip(t)) IN
    /\ AllDigits(IntPart(u))
    /\ AllDigits(FracPart(u))
    /\ Len(IntPart(u)) + Len(FracPart(u)) > 0

\* the first two fraction digits, padded with zeros
Frac2(f) == SubSeq(f \o <<"0", "0">>, 1, 2)

\* float(text) in hundredths.  Exact for at most two fraction digits, which
\* is what every reply of this model has; further digits are dropped.
FloatOf(t) ==
  LET s == Strip(t)
      u == Unsigned(s)
  IN SignOf(s) * (100 * DigitsVal(IntPart(u)) + DigitsVal(Frac2(FracPart(u))))

----------------------------------------------------------------------------
(* Exact arithmetic on large naturals, needed by (1 + r) ** months.  A     *)
(* natural is the tuple of its base-10^4 digits, least significant first,  *)
(* with no leading zero digit; <<>> is 0.                                  *)

Base == 10 ^ 4

RECURSIVE BigOf(_)
BigOf(n) == IF n = 0 THEN <<>> ELSE <<n % Base>> \o BigOf(n \div Base)

RECURSIVE BigToInt(_)
BigToInt(a) == IF a = <<>> THEN 0 ELSE Head(a) + Base * BigToInt(Tail(a))

RECURSIVE BigNorm(_)
BigNorm(a) ==
  IF a # <<>> /\ a[Len(a)] = 0 THEN BigNorm(SubSeq(a, 1, Len(a) - 1)) ELSE a

RECURSIVE MulCarry(_, _, _)
MulCarry(a, k, carry) ==
  IF a = <<>> THEN BigOf(carry)
  ELSE LET v == Head(a) * k + carry
       IN <<v % Base>> \o MulCarry(Tail(a), k, v \div Base)

\* a * k for an integer 0 <= k < 2^31 / Base
BigMulSmall(a, k) == IF k = 0 THEN <<>> ELSE MulCarry(a, k, 0)

RECURSIVE CmpFrom(_, _, _)
CmpFrom(a, b, i) ==
  IF i = 0 THEN 0
  ELSE IF a[i] > b[i] THEN 1
  ELSE IF a[i] < b[i] THEN -1
  ELSE CmpFrom(a, b, i - 1)

\* -1, 0 or 1 as a < b, a = b, a > b
BigCmp(a, b) ==
  IF Len(a) > Len(b) THEN 1
  ELSE IF Len(a) < Len(b) THEN -1
  ELSE CmpFrom(a, b, Len(a))

RECURSIVE SubBorrow(_, _, _)
SubBorrow(a, b, borrow) ==
  IF a = <<>> THEN <<>>
  ELSE LET v == Head(a) - (IF b = <<>> THEN 0 ELSE Head(b)) - borrow
       IN <<IF v < 0 THEN v + Base ELSE v>>
            \o SubBorrow(Tail(a), IF b = <<>> THEN <<>> ELSE Tail(b),
                         IF v < 0 THEN 1 ELSE 0)

\* a - b for a >= b
BigSub(a, b) == BigNorm(SubBorrow(a, b, 0))

\* |a - b|
BigDiff(a, b) == IF BigCmp(a, b) >= 0 THEN BigSub(a, b) ELSE BigSub(b, a)

RECURSIVE BigPow(_, _)
BigPow(k, n) == IF n = 0 THEN <<1>> ELSE BigMulSmall(BigPow(k, n - 1), k)

\* the largest digit d in lo..hi with d * b <= r  (lo * b <= r is given)
RECURSIVE QuotDigit(_, _, _, _)
QuotDigit(r, b, lo, hi) ==
  IF lo = hi THEN lo
  ELSE LET mid == (lo + hi + 1) \div 2
       IN IF BigCmp(BigMulSmall(b, mid), r) <= 0
            THEN QuotDigit(r, b, mid, hi)
            ELSE QuotDigit(r, b, lo, mid - 1)

\* long division of a by b # 0 down to digit i of a: the digits of a above
\* the first Len(a) - Len(b) + 1 cannot give a quotient digit and start the
\* remainder.  [q |-> quotient, r |-> remainder]
RECURSIVE DivFrom(_, _, _)
DivFrom(a, b, i) ==
  IF i > Len(a) - Len(b) + 1
    THEN [q |-> <<>>, r |-> BigNorm(SubSeq(a, i, Len(a)))]
  ELSE LET up == DivFrom(a, b, i + 1)
           r0 == BigNorm(<<a[i]>> \o up.r)
           d  == QuotDigit(r0, b, 0, Base - 1)
       IN [q |-> BigNorm(<<d>> \o up.q), r |-> BigSub(r0, BigMulSmall(b, d))]

BigDivMod(a, b) ==
  IF Len(a) < Len(b) THEN [q |-> <<>>, r |-> a] ELSE DivFrom(a, b, 1)

Abs(x) == IF x < 0 THEN -x ELSE x
Sgn(x) == IF x < 0 THEN -1 ELSE IF x > 0 THEN 1 ELSE 0

----------------------------------------------------------------------------
(* monthly_payment (lines 50-57).                                          *)

\* round(num / den, 2) of a quotient taken in hundredths, for large naturals
\* num and den # 0: the nearest hundredth.  A quotient exactly half way
\* between two hundredths is stored exactly as a double (only odd multiples
\* of 0.125 hundredths-of-a-hundred are), and round() then returns the even
\* neighbour, not the upper one.
RoundQuot(num, den) ==
  LET dm  == BigDivMod(num, den)
      q   == BigToInt(dm.q)
      two == BigCmp(BigMulSmall(dm.r, 2), den)
  IN IF two > 0 THEN q + 1
     ELSE IF two < 0 THEN q
     ELSE IF q % 2 = 0 THEN q ELSE q + 1

\* the monthly rate r = (annual_rate / 100) / 12 is rate / MonthlyDen with
\* the annual rate in hundredths of a percent
MonthlyDen == 100 * 100 * 12

\* monthly_payment raises ZeroDivisionError: amount / 0 when r == 0, and
\* num / 0.0 when (1 + r) ** 0 - 1 == 0.0
PaymentRaises(amount, months, annual_rate) == months = 0

\* monthly_payment(amount, months, annual_rate) in hundredths, for
\* months # 0 and annual_rate > -1200 %:
\*   r == 0:  round(amount / months, 2)
\*   else:    round(amount * r * (1+r)**months / ((1+r)**months - 1), 2)
\* With A = MonthlyDen + rate, B = MonthlyDen and m = |months| the quotient is
\*   months > 0:  amount * rate * A^m     / (B * (A^m - B^m))
\*   months < 0:  amount * rate * B^(m-1) / (B^m - A^m)
monthly_payment(amount, months, annual_rate) ==
  LET m == Abs(months)
      A == BigPow(MonthlyDen + annual_rate, m)
      B == BigPow(MonthlyDen, m)
  IN IF annual_rate = 0
       THEN Sgn(amount) * Sgn(months)
              * RoundQuot(BigOf(Abs(amount)), BigOf(m))
     ELSE IF months > 0
       THEN Sgn(amount)
              * RoundQuot(BigMulSmall(BigMulSmall(A, Abs(annual_rate)), Abs(amount)),
                          BigMulSmall(BigDiff(A, B), MonthlyDen))
     ELSE -Sgn(amount)
              * RoundQuot(BigMulSmall(BigMulSmall(BigPow(MonthlyDen, m - 1),
                                                  Abs(annual_rate)), Abs(amount)),
                          BigDiff(B, A))

----------------------------------------------------------------------------
(* Messages.                                                               *)

CmdStart     == <<"/", "s", "t", "a", "r", "t">>
CmdCancel    == <<"/", "c", "a", "n", "c", "e", "l">>
CmdContratto == <<"/", "c", "o", "n", "t", "r", "a", "t", "t", "o">>
CmdGaranzia  == <<"/", "g", "a", "r", "a", "n", "z", "i", "a">>
CmdCarta     == <<"/", "c", "a", "r", "t", "a">>

\* the texts matched by ^(\/contratto|\/garanzia|\/carta)$  (line 702)
DocCommands == {CmdContratto, CmdGaranzia, CmdCarta}

\* the texts the bot sends with reply_text.  The two failure notices are
\* Russian sentences in the source (lines 628, 634, 682, 688); they are
\* given here by their meaning.
MsgWelcome     == "Benvenuto! Scegli documento:"
MsgAskName     == "Inserisci nome e cognome del cliente:"
MsgAskAmount   == "Inserisci importo (€):"
MsgBadAmount   == "Importo non valido, riprova:"
MsgAskDuration == "Inserisci durata (mesi):"
MsgBadDuration == "Durata non valida, riprova:"
MsgAskTan      == "Inserisci TAN (%), enter per 7.86%:"
MsgAskTaeg     == "Inserisci TAEG (%), enter per 8.3%:"
MsgCancelled   == "Operazione annullata."
MsgBuildFailed == "PDF build error. Tell the administrator."
MsgSendFailed  == "PDF sending error. Tell the administrator."

\* filters.TEXT: the message has a non-empty text
FilterText(t) == t # <<>>

\* filters.COMMAND: the text starts with a bot command
FilterCommand(t) == Len(t) >= 2 /\ t[1] = "/" /\ t[2] \in CommandChars

\* the command's name: the command characters that follow the slash
RECURSIVE CommandChunk(_)
CommandChunk(t) ==
  IF t # <<>> /\ Head(t) \in CommandChars
    THEN <<Head(t)>> \o CommandChunk(Tail(t)) ELSE <<>>

\* CommandHandler(name, ...).check_update
IsCommand(t, name) == FilterCommand(t) /\ CommandChunk(Tail(t)) = Tail(name)

\* ConversationHandler.check_update (lines 699-710): the handler that takes a
\* message with text t in a conversation in state st, or "none".  Without a
\* conversation only the entry point is tried; within one, the handlers of
\* its state and then the fallbacks.
StateHandler(st, t) ==
  CASE st = CHOOSING_DOC -> IF t \in DocCommands THEN "choose_doc" ELSE "none"
    [] st = ASK_NAME     -> IF FilterText(t) /\ ~FilterCommand(t) THEN "ask_name" ELSE "none"
    [] st = ASK_AMOUNT   -> IF FilterText(t) /\ ~FilterCommand(t) THEN "ask_amount" ELSE "none"
    [] st = ASK_DURATION -> IF FilterText(t) /\ ~FilterCommand(t) THEN "ask_duration" ELSE "none"
    [] st = ASK_TAN      -> IF FilterText(t) /\ ~FilterCommand(t) THEN "ask_tan" ELSE "none"
    [] st = ASK_TAEG     -> IF FilterText(t) /\ ~FilterCommand(t) THEN "ask_taeg" ELSE "none"

Fallback(t) ==
  IF IsCommand(t, CmdCancel) THEN "cancel"
  ELSE IF IsCommand(t, CmdStart) THEN "start"
  ELSE "none"

\* a dispatch in which choose_doc takes a document command in every state
HandlerDocAnywhere(st, t) ==
  IF st = END THEN (IF IsCommand(t, CmdStart) THEN "start" ELSE "none")
  ELSE IF t \in DocCommands THEN "choose_doc"
  ELSE IF StateHandler(st, t) # "none" THEN StateHandler(st, t)
  ELSE Fallback(t)


Handler(st, t) ==
  IF st = END THEN (IF IsCommand(t, CmdStart) THEN "start" ELSE "none")
  ELSE IF StateHandler(st, t) # "none" THEN StateHandler(st, t)
  ELSE Fallback(t)

----------------------------------------------------------------------------
(* The bounded inputs: the conversations, and the texts a user sends.      *)

\* one user in two chats, e.g. the private chat and a group with the bot
Chats == {"c1", "c2"}
Users == {"u1"}

\* ConversationHandler keys a conversation by (chat id, user id)
Conv == Chats \X Users
\* context.user_data is the bag of the update's user
UserOf(c) == c[2]

Commands == {CmdStart, CmdCancel, CmdContratto, CmdGaranzia, CmdCarta}

NameReplies == { <<" ", "B", "o", " ">> }

AmountReplies ==
  { <<"1", "0", "0", "0">>, <<"€", " ", "1", ",", "5", "0">>,
    <<"-", "5">>, <<"a", "b", "c">> }

DurationReplies ==
  { <<"1", "2">>, <<"0">>, <<"-", "5">>, <<"1", ".", "5">> }

\* <<>> is a message without text
RateReplies ==
  { <<>>, <<" ">>, <<"0">>, <<"5", ",", "5">>, <<"a", "b", "c">> }

\* what is sent in the first chat to a conversation in state st: any
\* command, or a reply to the question of the state
Replies(st) ==
  CASE st = ASK_NAME     -> NameReplies
    [] st = ASK_AMOUNT   -> AmountReplies
    [] st = ASK_DURATION -> DurationReplies
    [] st \in {ASK_TAN, ASK_TAEG} -> RateReplies
    [] OTHER -> NameReplies

\* in the second chat the user begins a contract and gives a name
Inputs(c, st) ==
  IF c[1] = "c1" THEN Commands \cup Replies(st)
  ELSE {CmdStart, CmdContratto} \cup (IF st = ASK_NAME THEN { <<"A", "n", "n">> } ELSE {})

----------------------------------------------------------------------------
(* State.                                                                  *)

VARIABLES
  conversations,  \* ConversationHandler's state of each conversation key
  user_data,      \* context.user_data of each user: a dict, key -> value
  stored_by,      \* for each key of user_data, the conversation whose handler stored it
  tasks,          \* the handler calls that are inside a build or a delivery
  upd,            \* the update taken last: its conversation, text, handler
  log             \* what the handling of that update called and sent, in order

vars == <<conversations, user_data, stored_by, tasks, upd, log>>

EmptyDict == <<>>
Has(d, k) == k \in DOMAIN d
\* d[k] = v
Put(d, k, v) == (k :> v) @@ d

Keys == {"doc_type", "name", "amount", "duration", "tan", "taeg", "payment"}

Data(c) == user_data[UserOf(c)]

\* log entries
Reply(text)         == [ev |-> "reply_text", what |-> text, ok |-> TRUE]
Built(fn, arg, ok)  == [ev |-> "build", what |-> [fn |-> fn, arg |-> arg], ok |-> ok]
Sent(file, arg, ok) == [ev |-> "reply_document", what |-> [file |-> file, arg |-> arg], ok |-> ok]

NoUpdate == [conv |-> <<"c1", "u1">>, text |-> <<>>, state |-> END,
             handler |-> "none", status |-> "ignored"]

Init ==
  /\ conversations = [c \in Conv |-> END]
  /\ user_data = [u \in Users |-> EmptyDict]
  /\ stored_by = [u \in Users |-> EmptyDict]
  /\ tasks = {}
  /\ upd = NoUpdate
  /\ log = <<>>

\* updates handled concurrently
AlwaysDispatch == TRUE

\* Application.builder().build() (line 698) processes updates one at a time
\* (concurrent_updates is off) and awaits each handler: the next update is
\* taken only when no handler call is under way.
CanDispatch == tasks = {}

\* the update (c, txt) is taken and goes to handler h
Takes(c, txt, h) ==
  /\ CanDispatch
  /\ Handler(conversations[c], txt) = h

Update(c, txt, h, status) ==
  [conv |-> c, text |-> txt, state |-> conversations[c], handler |-> h, status |-> status]

\* the handler returns state st (ConversationHandler._update_state)
Returns(c, txt, h, st, data, by, out) ==
  /\ conversations' = [conversations EXCEPT ![c] = st]
  /\ user_data' = [user_data EXCEPT ![UserOf(c)] = data]
  /\ stored_by' = [stored_by EXCEPT ![UserOf(c)] = by]
  /\ upd' = Update(c, txt, h, "returned")
  /\ log' = out
  /\ UNCHANGED tasks

\* the handler raises: the conversation keeps its state, and what the
\* handler stored before the exception stays stored
Raises(c, txt, h, data, by) ==
  /\ user_data' = [user_data EXCEPT ![UserOf(c)] = data]
  /\ stored_by' = [stored_by EXCEPT ![UserOf(c)] = by]
  /\ upd' = Update(c, txt, h, "raised")
  /\ log' = <<>>
  /\ UNCHANGED <<conversations, tasks>>

\* the handler calls the build function fn with arg: the call is under way
Builds(c, txt, h, fn, arg, data, by) ==
  /\ user_data' = [user_data EXCEPT ![UserOf(c)] = data]
  /\ stored_by' = [stored_by EXCEPT ![UserOf(c)] = by]
  /\ tasks' = tasks \cup {[conv |-> c, handler |-> h, phase |-> "build",
                           fn |-> fn, arg |-> arg]}
  /\ upd' = Update(c, txt, h, "running")
  /\ log' = <<>>
  /\ UNCHANGED conversations

----------------------------------------------------------------------------
(* Handlers (lines 603-694).                                               *)

\* no handler matches: the update is dropped
Unhandled(c, txt) ==
  /\ Takes(c, txt, "none")
  /\ upd' = Update(c, txt, "none", "ignored")
  /\ log' = <<>>
  /\ UNCHANGED <<conversations, user_data, stored_by, tasks>>

\* start without user_data.clear()
StartKeepsData(c, txt) ==
  /\ Takes(c, txt, "start")
  /\ Returns(c, txt, "start", CHOOSING_DOC, Data(c), stored_by[UserOf(c)],
             <<Reply(MsgWelcome)>>)

\* start: user_data.clear(), the menu, CHOOSING_DOC
Start(c, txt) ==
  /\ Takes(c, txt, "start")
  /\ Returns(c, txt, "start", CHOOSING_DOC, EmptyDict, EmptyDict, <<Reply(MsgWelcome)>>)

\* cancel: a notice, then start
Cancel(c, txt) ==
  /\ Takes(c, txt, "cancel")
  /\ Returns(c, txt, "cancel", CHOOSING_DOC, EmptyDict, EmptyDict,
             <<Reply(MsgCancelled), Reply(MsgWelcome)>>)

ChooseDoc(c, txt) ==
  /\ Takes(c, txt, "choose_doc")
  /\ Returns(c, txt, "choose_doc", ASK_NAME,
             Put(Data(c), "doc_type", txt), Put(stored_by[UserOf(c)], "doc_type", c),
             <<Reply(MsgAskName)>>)

\* ask_name without the guarantee letter's shortcut
AskNameCollects(c, txt) ==
  /\ Takes(c, txt, "ask_name")
  /\ Returns(c, txt, "ask_name", ASK_AMOUNT,
             Put(Data(c), "name", Strip(txt)), Put(stored_by[UserOf(c)], "name", c),
             <<Reply(MsgAskAmount)>>)

AskName(c, txt) ==
  /\ Takes(c, txt, "ask_name")
  /\ LET d == Data(c)
         by == stored_by[UserOf(c)]
     IN IF ~Has(d, "doc_type")
          THEN Raises(c, txt, "ask_name", d, by)                  \* KeyError
        ELSE IF d["doc_type"] = CmdGaranzia
          THEN Builds(c, txt, "ask_name", "build_lettera_garanzia",
                      [name |-> Strip(txt)], d, by)
        ELSE Returns(c, txt, "ask_name", ASK_AMOUNT,
                     Put(d, "name", Strip(txt)), Put(by, "name", c),
                     <<Reply(MsgAskAmount)>>)

\* the text float() is given in ask_amount
AmountText(txt) == Replace(Replace(txt, "€", <<>>), ",", <<".">>)

\* ask_amount taking a text that is no number for 0
AskAmountZero(c, txt) ==
  /\ Takes(c, txt, "ask_amount")
  /\ Returns(c, txt, "ask_amount", ASK_DURATION,
             Put(Data(c), "amount",
                 IF IsFloatText(AmountText(txt)) THEN FloatOf(AmountText(txt)) ELSE 0),
             Put(stored_by[UserOf(c)], "amount", c),
             <<Reply(MsgAskDuration)>>)

\* round(amt, 2) is amt for a reply of at most two fraction digits
AskAmount(c, txt) ==
  /\ Takes(c, txt, "ask_amount")
  /\ LET d == Data(c)
         by == stored_by[UserOf(c)]
     IN IF ~IsFloatText(AmountText(txt))
          THEN Returns(c, txt, "ask_amount", ASK_AMOUNT, d, by, <<Reply(MsgBadAmount)>>)
        ELSE Returns(c, txt, "ask_amount", ASK_DURATION,
                     Put(d, "amount", FloatOf(AmountText(txt))), Put(by, "amount", c),
                     <<Reply(MsgAskDuration)>>)

AskDuration(c, txt) ==
  /\ Takes(c, txt, "ask_duration")
  /\ LET d == Data(c)
         by == stored_by[UserOf(c)]
     IN IF ~IsIntText(txt)
          THEN Returns(c, txt, "ask_duration", ASK_DURATION, d, by, <<Reply(MsgBadDuration)>>)
        ELSE Returns(c, txt, "ask_duration", ASK_TAN,
                     Put(d, "duration", IntOf(txt)), Put(by, "duration", c),
                     <<Reply(MsgAskTan)>>)

\* float(txt.replace(',', '.')) if txt else default, for txt the stripped text
RateText(txt) == Replace(Strip(txt), ",", <<".">>)
RateRaises(txt) == Strip(txt) # <<>> /\ ~IsFloatText(RateText(txt))
RateOf(txt, default) == IF Strip(txt) = <<>> THEN default ELSE FloatOf(RateText(txt))

\* the default stored for a reply that float() rejects
AskTanDefaults(c, txt) ==
  /\ Takes(c, txt, "ask_tan")
  /\ LET d == Data(c)
         by == stored_by[UserOf(c)]
     IN Returns(c, txt, "ask_tan", ASK_TAEG,
                Put(d, "tan", IF RateRaises(txt) THEN DEFAULT_TAN
                              ELSE RateOf(txt, DEFAULT_TAN)),
                Put(by, "tan", c), <<Reply(MsgAskTaeg)>>)

AskTan(c, txt) ==
  /\ Takes(c, txt, "ask_tan")
  /\ LET d == Data(c)
         by == stored_by[UserOf(c)]
     IN IF RateRaises(txt)
          THEN Raises(c, txt, "ask_tan", d, by)                   \* ValueError
        ELSE Returns(c, txt, "ask_tan", ASK_TAEG,
                     Put(d, "tan", RateOf(txt, DEFAULT_TAN)), Put(by, "tan", c),
                     <<Reply(MsgAskTaeg)>>)

\* the payment computed from the TAEG
AskTaegPaysTaeg(c, txt) ==
  /\ Takes(c, txt, "ask_taeg")
  /\ LET d   == Data(c)
         by  == stored_by[UserOf(c)]
         d1  == Put(d, "taeg", RateOf(txt, DEFAULT_TAEG))
         by1 == Put(by, "taeg", c)
         d2  == Put(d1, "payment", monthly_payment(d1["amount"], d1["duration"], d1["taeg"]))
         by2 == Put(by1, "payment", c)
     IN IF RateRaises(txt)
          THEN Raises(c, txt, "ask_taeg", d, by)
        ELSE IF ~(Has(d1, "amount") /\ Has(d1, "duration") /\ Has(d1, "tan"))
          THEN Raises(c, txt, "ask_taeg", d1, by1)
        ELSE IF PaymentRaises(d1["amount"], d1["duration"], d1["taeg"])
          THEN Raises(c, txt, "ask_taeg", d1, by1)
        ELSE IF ~Has(d1, "doc_type")
          THEN Raises(c, txt, "ask_taeg", d2, by2)
        ELSE Builds(c, txt, "ask_taeg",
                    IF d1["doc_type"] = CmdContratto
                      THEN "build_contratto" ELSE "build_lettera_carta",
                    d2, d2, by2)

AskTaeg(c, txt) ==
  /\ Takes(c, txt, "ask_taeg")
  /\ LET d   == Data(c)
         by  == stored_by[UserOf(c)]
         d1  == Put(d, "taeg", RateOf(txt, DEFAULT_TAEG))
         by1 == Put(by, "taeg", c)
         d2  == Put(d1, "payment", monthly_payment(d1["amount"], d1["duration"], d1["tan"]))
         by2 == Put(by1, "payment", c)
     IN IF RateRaises(txt)
          THEN Raises(c, txt, "ask_taeg", d, by)                  \* ValueError
        ELSE IF ~(Has(d1, "amount") /\ Has(d1, "duration") /\ Has(d1, "tan"))
          THEN Raises(c, txt, "ask_taeg", d1, by1)                \* KeyError
        ELSE IF PaymentRaises(d1["amount"], d1["duration"], d1["tan"])
          THEN Raises(c, txt, "ask_taeg", d1, by1)                \* ZeroDivisionError
        ELSE IF ~Has(d1, "doc_type")
          THEN Raises(c, txt, "ask_taeg", d2, by2)                \* KeyError
        ELSE Builds(c, txt, "ask_taeg",
                    IF d1["doc_type"] = CmdContratto
                      THEN "build_contratto" ELSE "build_lettera_carta",
                    d2, d2, by2)

----------------------------------------------------------------------------
(* Build and delivery (lines 624-636 and 673-690).                         *)

\* the build reads the name (data['name'] of the dict): a KeyError without
\* it.  Any build can fail as well: an image file missing, a layout error.
BuildCanSucceed(t) == Has(t.arg, "name")

\* one prefix for every document
FilePrefixContratto(fn) == "Contratto_"

FilePrefix(fn) ==
  CASE fn = "build_lettera_garanzia" -> "Garanzia_"
    [] fn = "build_contratto"        -> "Contratto_"
    [] fn = "build_lettera_carta"    -> "Carta_"

\* the build returns the document, and reply_document is called with it
BuildSucceeds(t) ==
  /\ t \in tasks /\ t.phase = "build"
  /\ BuildCanSucceed(t)
  /\ tasks' = (tasks \ {t}) \cup {[t EXCEPT !.phase = "send"]}
  /\ log' = Append(log, Built(t.fn, t.arg, TRUE))
  /\ UNCHANGED <<conversations, user_data, stored_by, upd>>

\* a build that raises and whose document is sent all the same
BuildFailsDelivers(t) ==
  /\ t \in tasks /\ t.phase = "build"
  /\ tasks' = (tasks \ {t}) \cup {[t EXCEPT !.phase = "send"]}
  /\ log' = Append(log, Built(t.fn, t.arg, FALSE))
  /\ UNCHANGED <<conversations, user_data, stored_by, upd>>

\* the build raises: the failure notice, END
BuildFails(t) ==
  /\ t \in tasks /\ t.phase = "build"
  /\ tasks' = tasks \ {t}
  /\ log' = log \o <<Built(t.fn, t.arg, FALSE), Reply(MsgBuildFailed)>>
  /\ conversations' = [conversations EXCEPT ![t.conv] = END]
  /\ upd' = [upd EXCEPT !.status = "returned"]
  /\ UNCHANGED <<user_data, stored_by>>

\* f"Garanzia_{name}.pdf", f"Contratto_{d['name']}.pdf", f"Carta_{d['name']}.pdf"
FileName(t) == [prefix |-> FilePrefix(t.fn), name |-> t.arg.name, ext |-> ".pdf"]

\* reply_document returns: the handler ends with start()
SendSucceeds(t) ==
  /\ t \in tasks /\ t.phase = "send"
  /\ tasks' = tasks \ {t}
  /\ log' = log \o <<Sent(FileName(t), t.arg, TRUE), Reply(MsgWelcome)>>
  /\ conversations' = [conversations EXCEPT ![t.conv] = CHOOSING_DOC]
  /\ user_data' = [user_data EXCEPT ![UserOf(t.conv)] = EmptyDict]
  /\ stored_by' = [stored_by EXCEPT ![UserOf(t.conv)] = EmptyDict]
  /\ upd' = [upd EXCEPT !.status = "returned"]

\* reply_document raises: the failure notice, END
SendFails(t) ==
  /\ t \in tasks /\ t.phase = "send"
  /\ tasks' = tasks \ {t}
  /\ log' = log \o <<Sent(FileName(t), t.arg, FALSE), Reply(MsgSendFailed)>>
  /\ conversations' = [conversations EXCEPT ![t.conv] = END]
  /\ upd' = [upd EXCEPT !.status = "returned"]
  /\ UNCHANGED <<user_data, stored_by>>

----------------------------------------------------------------------------

Next ==
  \/ \E c \in Conv : \E txt \in Inputs(c, conversations[c]) : Unhandled(c, txt)
  \/ \E c \in Conv : \E txt \in Inputs(c, conversations[c]) : Start(c, txt)
  \/ \E c \in Conv : \E txt \in Inputs(c, conversations[c]) : Cancel(c, txt)
  \/ \E c \in Conv : \E txt \in Inputs(c, conversations[c]) : ChooseDoc(c, txt)
  \/ \E c \in Conv : \E txt \in Inputs(c, conversations[c]) : AskName(c, txt)
  \/ \E c \in Conv : \E txt \in Inputs(c, conversations[c]) : AskAmount(c, txt)
  \/ \E c \in Conv : \E txt \in Inputs(c, conversations[c]) : AskDuration(c, txt)
  \/ \E c \in Conv : \E txt \in Inputs(c, conversations[c]) : AskTan(c, txt)
  \/ \E c \in Conv : \E txt \in Inputs(c, conversations[c]) : AskTaeg(c, txt)
  \/ \E t \in tasks : BuildSucceeds(t)
  \/ \E t \in tasks : BuildFails(t)
  \/ \E t \in tasks : SendSucceeds(t)
  \/ \E t \in tasks : SendFails(t)

Spec == Init /\ [][Next]_vars

----------------------------------------------------------------------------
(* Properties.  upd and log describe the update handled last, so a state   *)
(* predicate over them speaks of the outcome of a handler, and an action   *)
(* formula of the step in which an update is taken.                        *)

Last(l) == l[Len(l)]

IsNotice(e, text) == e.ev = "reply_text" /\ e.what = text

\* the last handler call ended with a failure notice, in conversation c
FailedLast(c) ==
  /\ tasks = {} /\ upd.conv = c /\ log # <<>>
  /\ (IsNotice(Last(log), MsgBuildFailed) \/ IsNotice(Last(log), MsgSendFailed))

\* this step takes the update (c, txt)
Dispatched(c, txt) ==
  tasks = {} /\ vars' # vars /\ upd'.conv = c /\ upd'.text = txt

\* this step takes an update of conversation c
DispatchedIn(c) == tasks = {} /\ vars' # vars /\ upd'.conv = c

BuildsIn(l) == {i \in 1..Len(l) : l[i].ev = "build"}
DocsIn(l) == {i \in 1..Len(l) : l[i].ev = "reply_document"}

Prompts == {MsgAskAmount, MsgAskDuration, MsgAskTan, MsgAskTaeg}

\* C1: /cancel, sent in any state of a flow or in the terminated state that a
\* build or delivery failure has just left, moves the conversation to
\* CHOOSING_DOC and leaves no session field.
C1_CancelResets ==
  [][\A c \in Conv :
       (Dispatched(c, CmdCancel) /\ (conversations[c] \in States \/ FailedLast(c)))
         => (conversations'[c] = CHOOSING_DOC /\ user_data'[UserOf(c)] = EmptyDict)]_vars

\* C2: when a handler has returned after a failed build or a failed
\* delivery, the session holds no field.
C2_ErrorLeavesSessionEmpty ==
  \A c \in Conv : FailedLast(c) => Data(c) = EmptyDict

\* C3: when a handler that called a build has returned, whether the build
\* and the delivery succeeded or not, the conversation is in CHOOSING_DOC.
C3_MenuAfterProduction ==
  (tasks = {} /\ BuildsIn(log) # {}) => conversations[upd.conv] = CHOOSING_DOC

\* the step of C4: the name that follows /garanzia starts the build of the
\* guarantee letter with that name, sends no prompt and enters no state
C4_NameBuilds ==
  \A c \in Conv : \A txt \in NameReplies :
    (/\ upd.conv = c /\ upd.text = CmdGaranzia /\ upd.state = CHOOSING_DOC
     /\ upd.handler = "choose_doc"
     /\ Dispatched(c, txt))
      => /\ tasks' = {[conv |-> c, handler |-> "ask_name", phase |-> "build",
                       fn |-> "build_lettera_garanzia", arg |-> [name |-> Strip(txt)]]}
         /\ log' = <<>>
         /\ conversations'[c] = ASK_NAME

\* the run of C4: while and after ask_name produces a guarantee letter
C4_GaranziaRun ==
  (/\ upd.handler = "ask_name"
   /\ \/ \E t \in tasks : t.fn = "build_lettera_garanzia"
      \/ BuildsIn(log) # {})
    => /\ conversations[upd.conv] \notin {ASK_AMOUNT, ASK_DURATION, ASK_TAN, ASK_TAEG}
       /\ \A i \in 1..Len(log) : \A p \in Prompts : ~IsNotice(log[i], p)
       /\ Cardinality(BuildsIn(log)) <= 1
       /\ \A i \in BuildsIn(log) :
            /\ log[i].what.fn = "build_lettera_garanzia"
            /\ log[i].what.arg = [name |-> Strip(upd.text)]
       /\ tasks = {} => Cardinality(BuildsIn(log)) = 1
       /\ (\E i \in DocsIn(log) : log[i].ok)
            => /\ tasks = {}
               /\ conversations[upd.conv] = CHOOSING_DOC
               /\ Data(upd.conv) = EmptyDict

\* C4: from CHOOSING_DOC, /garanzia and then a name cause exactly one build,
\* of the guarantee letter with that name, and no prompt for amount,
\* duration, TAN or TAEG; none of ASK_AMOUNT .. ASK_TAEG is entered; after a
\* delivery that succeeded the state is CHOOSING_DOC and the session empty.
C4_GaranziaShortcut == []C4_GaranziaRun /\ [][C4_NameBuilds]_vars

\* a guarantee letter was built from the stripped name and delivered
C4_Witness ==
  /\ tasks = {} /\ upd.handler = "ask_name" /\ upd.text = <<" ", "B", "o", " ">>
  /\ Len(log) = 3
  /\ log[1] = Built("build_lettera_garanzia", [name |-> <<"B", "o">>], TRUE)
  /\ log[2].ev = "reply_document" /\ log[2].ok
  /\ log[2].what.file = [prefix |-> "Garanzia_", name |-> <<"B", "o">>, ext |-> ".pdf"]
  /\ IsNotice(log[3], MsgWelcome)
  /\ conversations[upd.conv] = CHOOSING_DOC /\ Data(upd.conv) = EmptyDict

\* C5: in ASK_TAN and ASK_TAEG a reply that is empty, or blank, stores the
\* default rate (and ASK_TAN moves on to ASK_TAEG).
C5_EmptyRateStoresDefault ==
  [][\A c \in Conv : \A txt \in RateReplies :
       (Dispatched(c, txt) /\ Strip(txt) = <<>>)
         => /\ conversations[c] = ASK_TAN
              => /\ conversations'[c] = ASK_TAEG
                 /\ Has(user_data'[UserOf(c)], "tan")
                 /\ user_data'[UserOf(c)]["tan"] = DEFAULT_TAN
            /\ conversations[c] = ASK_TAEG
              => /\ Has(user_data'[UserOf(c)], "taeg")
                 /\ user_data'[UserOf(c)]["taeg"] = DEFAULT_TAEG]_vars

\* C6: a reply to ASK_AMOUNT that is no number, or to ASK_DURATION that is
\* no integer, is answered by the prompt to try again: the state stays, no
\* session field changes, and no build is called.
C6_MalformedReprompts ==
  [][\A c \in Conv : \A txt \in AmountReplies \cup DurationReplies :
       (Dispatched(c, txt) /\ FilterText(txt) /\ ~FilterCommand(txt))
         => /\ (conversations[c] = ASK_AMOUNT /\ ~IsFloatText(AmountText(txt)))
              => /\ conversations'[c] = ASK_AMOUNT
                 /\ user_data' = user_data
                 /\ log' = <<Reply(MsgBadAmount)>>
                 /\ tasks' = {}
            /\ (conversations[c] = ASK_DURATION /\ ~IsIntText(txt))
              => /\ conversations'[c] = ASK_DURATION
                 /\ user_data' = user_data
                 /\ log' = <<Reply(MsgBadDuration)>>
                 /\ tasks' = {}]_vars

\* "abc" was sent as the amount: the prompt again, no amount stored
C6_Witness ==
  /\ upd.handler = "ask_amount" /\ upd.text = <<"a", "b", "c">>
  /\ upd.state = ASK_AMOUNT /\ conversations[upd.conv] = ASK_AMOUNT
  /\ log = <<Reply(MsgBadAmount)>>
  /\ Has(Data(upd.conv), "name") /\ ~Has(Data(upd.conv), "amount")

\* C7: a stored duration is at least 1.
C7_DurationPositive ==
  \A u \in Users : Has(user_data[u], "duration") => user_data[u]["duration"] >= 1

\* C8: a handler run for one conversation leaves every field that another
\* conversation stored as it is, and builds a document only from fields that
\* its own conversation stored.
C8_SessionPerConversation ==
  /\ [][\A c \in Conv : \A txt \in Commands \cup NameReplies :
          Dispatched(c, txt)
            => \A k \in DOMAIN stored_by[UserOf(c)] :
                 stored_by[UserOf(c)][k] # c
                   => /\ Has(user_data'[UserOf(c)], k)
                      /\ user_data'[UserOf(c)][k] = user_data[UserOf(c)][k]
                      /\ stored_by'[UserOf(c)][k] = stored_by[UserOf(c)][k]]_vars
  /\ [](\A t \in tasks :
          \A k \in DOMAIN stored_by[UserOf(t.conv)] :
            stored_by[UserOf(t.conv)][k] = t.conv)

\* the step of C9: while a handler call is under way no other update is
\* taken, and a conversation changes state only as a handler returns
C9_OneAtATime ==
  /\ tasks # {} => (upd'.conv = upd.conv /\ upd'.text = upd.text
                      /\ upd'.handler = upd.handler /\ upd'.state = upd.state)
  /\ conversations' # conversations
       => /\ tasks' = {} /\ upd'.status = "returned"
          /\ \A c \in Conv : c # upd'.conv => conversations'[c] = conversations[c]

\* C9: an update is handled to its end, build and delivery included, before
\* the next one is taken; it changes the state of its conversation once, as
\* its handler returns, and causes at most one build; no two builds overlap.
C9_RunToCompletion ==
  /\ [](/\ Cardinality(tasks) <= 1
        /\ Cardinality(BuildsIn(log)) + Cardinality({t \in tasks : t.phase = "build"}) <= 1
        /\ \A t \in tasks : t.conv = upd.conv /\ upd.status = "running")
  /\ [][C9_OneAtATime]_vars

\* ask_taeg is inside the delivery of the document it built
C9_Witness ==
  \E t \in tasks :
    /\ t.phase = "send" /\ t.handler = "ask_taeg" /\ t.conv = upd.conv
    /\ upd.status = "running" /\ Len(log) = 1 /\ log[1].ev = "build"

\* C10: reply_document is called only with the document of a build that
\* succeeded, and at most once; a build that raises is followed by the
\* failure notice alone, a delivery that raises by the failure notice alone:
\* neither is tried again.
C10_DeliveryAfterBuild ==
  /\ Cardinality(BuildsIn(log)) <= 1 /\ Cardinality(DocsIn(log)) <= 1
  /\ \A i \in DocsIn(log) :
       /\ i = 2 /\ log[1].ev = "build" /\ log[1].ok
       /\ log[2].what.arg = log[1].what.arg
  /\ \A i \in BuildsIn(log) :
       ~log[i].ok => (i = 1 /\ Len(log) = 2 /\ IsNotice(log[2], MsgBuildFailed) /\ tasks = {})
  /\ \A i \in DocsIn(log) :
       ~log[i].ok => (Len(log) = 3 /\ IsNotice(log[3], MsgSendFailed) /\ tasks = {})
  /\ \A t \in tasks : t.phase = "send" => (Len(log) = 1 /\ log[1] = Built(t.fn, t.arg, TRUE))
  /\ \A t \in tasks : t.phase = "build" => log = <<>>

\* build_contratto raised: the notice, and no document
C10_Witness ==
  /\ tasks = {} /\ upd.handler = "ask_taeg" /\ Len(log) = 2
  /\ log[1].ev = "build" /\ log[1].what.fn = "build_contratto" /\ ~log[1].ok
  /\ IsNotice(log[2], MsgBuildFailed)

\* C11: /start is taken in every state, a conversation that has not begun
\* or has ended included; like /cancel where cancel handles it, it leaves
\* the conversation in CHOOSING_DOC with an empty session; a second /start
\* changes neither.
C11_StartResets ==
  [][\A c \in Conv :
       /\ DispatchedIn(c) /\ upd'.text = CmdStart
            => /\ upd'.handler = "start"
               /\ conversations'[c] = CHOOSING_DOC
               /\ user_data'[UserOf(c)] = EmptyDict
               /\ (upd.conv = c /\ upd.text = CmdStart)
                    => (conversations' = conversations /\ user_data' = user_data)
       /\ (DispatchedIn(c) /\ upd'.handler = "cancel")
            => /\ conversations'[c] = CHOOSING_DOC
               /\ user_data'[UserOf(c)] = EmptyDict]_vars

\* /start was sent in ASK_TAEG, with the fields of a flow stored
C11_Witness ==
  /\ upd.text = CmdStart /\ upd.handler = "start" /\ upd.state = ASK_TAEG
  /\ upd.status = "returned"
  /\ conversations[upd.conv] = CHOOSING_DOC /\ Data(upd.conv) = EmptyDict
  /\ log = <<Reply(MsgWelcome)>>

\* C12: a stored amount is at least 0.
C12_AmountNonNegative ==
  \A u \in Users : Has(user_data[u], "amount") => user_data[u]["amount"] >= 0

\* C13: doc_type is written only by choose_doc, for a document command taken
\* in CHOOSING_DOC, and leaves the session only with a reset of the whole
\* session; a document command sent in ASK_NAME .. ASK_TAEG changes neither
\* a state nor a session field.
C13_DocTypeFrame ==
  [][/\ \A u \in Users :
          /\ (/\ Has(user_data'[u], "doc_type")
              /\ (Has(user_data[u], "doc_type")
                    => user_data'[u]["doc_type"] # user_data[u]["doc_type"]))
               => /\ tasks = {} /\ UserOf(upd'.conv) = u
                  /\ upd'.handler = "choose_doc" /\ upd'.state = CHOOSING_DOC
                  /\ upd'.text \in DocCommands
                  /\ user_data'[u]["doc_type"] = upd'.text
          /\ (Has(user_data[u], "doc_type") /\ ~Has(user_data'[u], "doc_type"))
               => user_data'[u] = EmptyDict
     /\ \A c \in Conv : \A txt \in DocCommands :
          (Dispatched(c, txt) /\ conversations[c] \in States \ {CHOOSING_DOC})
            => /\ upd'.handler = "none"
               /\ conversations' = conversations /\ user_data' = user_data
               /\ tasks' = {} /\ log' = <<>>]_vars

\* /garanzia was sent in ASK_AMOUNT of a contract: nothing changed
C13_Witness ==
  /\ upd.text = CmdGaranzia /\ upd.state = ASK_AMOUNT /\ upd.handler = "none"
  /\ conversations[upd.conv] = ASK_AMOUNT
  /\ Has(Data(upd.conv), "doc_type") /\ Data(upd.conv)["doc_type"] = CmdContratto
  /\ Has(Data(upd.conv), "name")

----------------------------------------------------------------------------
(* The payment on its own: the conversation of the first chat is in        *)
(* ASK_TAEG with an amount, a duration and a TAN drawn from bounded sets,  *)
(* and ask_taeg computes the payment (line 671) and produces the document. *)

\* the amounts are the multiples of 0.25 up to MaxQuarters quarters, and
\* 1200.00; a quarter is stored exactly as a double, and so is every quotient
\* of these amounts by one of PayMonths that lies half way between two cents
MaxQuarters == 8
PayAmounts == {25 * a : a \in 0..MaxQuarters} \cup {120000}
PayMonths == {1, 2, 3, 4, 6, 8, 12}
PayRates == {0, DEFAULT_TAN}
PayTaegReplies == { <<" ">>, <<"0">> }

\* the text of the reply that stored the TAN tan
PayTanReply(tan) == IF tan = DEFAULT_TAN THEN <<" ">> ELSE <<"0">>

PayInit ==
  \E amount \in PayAmounts, months \in PayMonths, tan \in PayRates :
    /\ conversations = [c \in Conv |-> IF c[1] = "c1" THEN ASK_TAEG ELSE END]
    /\ user_data = [u \in Users |->
                      [doc_type |-> CmdContratto, name |-> <<"B", "o">>,
                       amount |-> amount, duration |-> months, tan |-> tan]]
    /\ stored_by = [u \in Users |->
                      [k \in {"doc_type", "name", "amount", "duration", "tan"}
                         |-> <<"c1", u>>]]
    /\ tasks = {}
    /\ upd = [conv |-> <<"c1", "u1">>, text |-> PayTanReply(tan), state |-> ASK_TAN,
              handler |-> "ask_tan", status |-> "returned"]
    /\ log = <<Reply(MsgAskTaeg)>>

PayNext ==
  \/ \E txt \in PayTaegReplies : AskTaeg(<<"c1", "u1">>, txt)
  \/ \E t \in tasks : BuildSucceeds(t)
  \/ \E t \in tasks : BuildFails(t)
  \/ \E t \in tasks : SendSucceeds(t)
  \/ \E t \in tasks : SendFails(t)

PaySpec == PayInit /\ [][PayNext]_vars

\* money (lines 45-47): the cents that
\* Decimal(val).quantize(Decimal('0.01'), rounding=ROUND_HALF_UP) gives for a
\* value val of num / den hundredths, den > 0: half a cent goes away from 0
MoneyCents(num, den) == Sgn(num) * ((2 * Abs(num) + den) \div (2 * den))

\* C14: with rate 0 and months >= 1 the payment is amount / months rounded
\* half-up to cents, as money() rounds (0.125 gives 0.13), and the payment of
\* 1200.00 over 12 months is 100.00.
C14_PaymentHalfUp ==
  \A u \in Users :
    LET d == user_data[u] IN
      (Has(d, "payment") /\ d["tan"] = 0 /\ d["duration"] >= 1)
        => /\ d["payment"] = MoneyCents(d["amount"], d["duration"])
           /\ (d["amount"] = 120000 /\ d["duration"] = 12) => d["payment"] = 10000

----------------------------------------------------------------------------
(* The signature lines (lines 194-247, 429-453, 559-583): a build is under *)
(* way and draws its signature line.  Lengths are given in points and the  *)
(* coordinates of a drawn image in half points, which makes the divisions  *)
(* by 2 of the code exact.                                                 *)

\* stringWidth(label): multiples of LabelStep up to MaxLabel steps
MaxLabel == 6
LabelStep == 40
TextWidths == {LabelStep * k : k \in 0..MaxLabel}
\* line_width = A4[0] - 2*cm*2, about 482 points
LineWidths == {480, 482}
\* sign_width = 4*cm, about 113 points
SignWidths == {112, 114}
\* sign_height = 1.5*cm in the contract, 2*cm in the letters
SignHeights == {42, 56}

Drawn(fn, text_width, width, sign_width, sign_height, image) ==
  [ev |-> "SignatureLine.draw",
   what |-> [fn |-> fn, text_width |-> text_width, width |-> width,
             sign_width |-> sign_width, sign_height |-> sign_height,
             image |-> image],
   ok |-> TRUE]

\* no image: sign_path is None or the file does not exist
NoImage == [drawn |-> FALSE]
DrawImage(img_x, img_y) == [drawn |-> TRUE, img_x |-> img_x, img_y |-> img_y]

\* build_contratto's SignatureLine.draw (lines 209-247):
\*   line_x0 = text_width + 6;  line_x1 = self.width
\*   img_x = line_x0 + (line_len - self.sign_width) / 2;  img_y = y - self.sign_height/2
ContrattoImage(text_width, width, sign_width, sign_height) ==
  LET line_x0 == text_width + 6
      line_x1 == width
      line_len == line_x1 - line_x0
  IN DrawImage(2 * line_x0 + (line_len - sign_width), 0 - sign_height)

\* SignatureLine.draw of build_lettera_garanzia (lines 440-453):
\*   img_x = self.width - self.sign_width;  img_y = y - self.sign_height/2
GaranziaImage(text_width, width, sign_width, sign_height) ==
  DrawImage(2 * (width - sign_width), 0 - sign_height)

\* SignatureLine.draw of build_lettera_carta (lines 570-583): the same
CartaImage(text_width, width, sign_width, sign_height) ==
  DrawImage(2 * (width - sign_width), 0 - sign_height)

\* the build of task t draws its signature line
SignatureLineDraw(t, fn, image) ==
  /\ t \in tasks /\ t.phase = "build" /\ t.fn = fn
  /\ log = <<>>
  /\ \E tw \in TextWidths, w \in LineWidths, sw \in SignWidths, sh \in SignHeights,
        exists \in BOOLEAN :
        log' = <<Drawn(fn, tw, w, sw, sh,
                       IF exists THEN image[<<tw, w, sw, sh>>] ELSE NoImage)>>
  /\ UNCHANGED <<conversations, user_data, stored_by, tasks, upd>>

Layouts == TextWidths \X LineWidths \X SignWidths \X SignHeights

DrawContratto(t) ==
  SignatureLineDraw(t, "build_contratto",
                    [l \in Layouts |-> ContrattoImage(l[1], l[2], l[3], l[4])])

DrawGaranzia(t) ==
  SignatureLineDraw(t, "build_lettera_garanzia",
                    [l \in Layouts |-> GaranziaImage(l[1], l[2], l[3], l[4])])

DrawCarta(t) ==
  SignatureLineDraw(t, "build_lettera_carta",
                    [l \in Layouts |-> CartaImage(l[1], l[2], l[3], l[4])])

\* the session with which ask_taeg calls build_contratto or build_lettera_carta
DrawData(doc) ==
  [doc_type |-> doc, name |-> <<"B", "o">>, amount |-> 100000, duration |-> 12,
   tan |-> DEFAULT_TAN, taeg |-> DEFAULT_TAEG,
   payment |-> monthly_payment(100000, 12, DEFAULT_TAN)]

\* a handler has just called its build function
DrawInit ==
  /\ log = <<>>
  /\ \/ /\ conversations = [c \in Conv |-> IF c[1] = "c1" THEN ASK_NAME ELSE END]
        /\ user_data = [u \in Users |-> [doc_type |-> CmdGaranzia]]
        /\ tasks = {[conv |-> <<"c1", "u1">>, handler |-> "ask_name", phase |-> "build",
                     fn |-> "build_lettera_garanzia", arg |-> [name |-> <<"B", "o">>]]}
        /\ upd = [conv |-> <<"c1", "u1">>, text |-> <<" ", "B", "o", " ">>,
                  state |-> ASK_NAME, handler |-> "ask_name", status |-> "running"]
     \/ \E doc \in {CmdContratto, CmdCarta} :
          /\ conversations = [c \in Conv |-> IF c[1] = "c1" THEN ASK_TAEG ELSE END]
          /\ user_data = [u \in Users |-> DrawData(doc)]
          /\ tasks = {[conv |-> <<"c1", "u1">>, handler |-> "ask_taeg", phase |-> "build",
                       fn |-> IF doc = CmdContratto THEN "build_contratto"
                              ELSE "build_lettera_carta",
                       arg |-> DrawData(doc)]}
          /\ upd = [conv |-> <<"c1", "u1">>, text |-> <<" ">>,
                    state |-> ASK_TAEG, handler |-> "ask_taeg", status |-> "running"]
  /\ stored_by = [u \in Users |-> [k \in DOMAIN user_data[u] |-> <<"c1", u>>]]

DrawNext ==
  \/ \E t \in tasks : DrawContratto(t)
  \/ \E t \in tasks : DrawGaranzia(t)
  \/ \E t \in tasks : DrawCarta(t)

DrawSpec == DrawInit /\ [][DrawNext]_vars

\* C15: a signature image that is drawn is centred on the rule from
\* ruleStart = text_width + 6 to ruleEnd = width, and straddles the baseline:
\* img_x + sign_width / 2 = (ruleStart + ruleEnd) / 2 and img_y = - sign_height / 2.
C15_SignatureCentred ==
  \A i \in 1..Len(log) :
    (log[i].ev = "SignatureLine.draw" /\ log[i].what.image.drawn)
      => LET w == log[i].what
             ruleStart == w.text_width + 6
             ruleEnd == w.width
         IN /\ w.image.img_x + w.sign_width = ruleStart + ruleEnd
            /\ w.image.img_y = 0 - w.sign_height

----------------------------------------------------------------------------
(* A single conversation: only the first chat sends messages.              *)

Solo == <<"c1", "u1">>

SoloNext ==
  \/ \E txt \in Inputs(Solo, conversations[Solo]) : Unhandled(Solo, txt)
  \/ \E txt \in Inputs(Solo, conversations[Solo]) : Start(Solo, txt)
  \/ \E txt \in Inputs(Solo, conversations[Solo]) : Cancel(Solo, txt)
  \/ \E txt \in Inputs(Solo, conversations[Solo]) : ChooseDoc(Solo, txt)
  \/ \E txt \in Inputs(Solo, conversations[Solo]) : AskName(Solo, txt)
  \/ \E txt \in Inputs(Solo, conversations[Solo]) : AskAmount(Solo, txt)
  \/ \E txt \in Inputs(Solo, conversations[Solo]) : AskDuration(Solo, txt)
  \/ \E txt \in Inputs(Solo, conversations[Solo]) : AskTan(Solo, txt)
  \/ \E txt \in Inputs(Solo, conversations[Solo]) : AskTaeg(Solo, txt)
  \/ \E t \in tasks : BuildSucceeds(t)
  \/ \E t \in tasks : BuildFails(t)
  \/ \E t \in tasks : SendSucceeds(t)
  \/ \E t \in tasks : SendFails(t)

SoloSpec == Init /\ [][SoloNext]_vars

\* the session fields in the order in which the handlers store them
FieldOrder == <<"doc_type", "name", "amount", "duration", "tan", "taeg", "payment">>
FirstFields(n) == {FieldOrder[i] : i \in 1..n}

\* the document kind's build function and file name prefix
KindOf(doc) ==
  CASE doc = CmdContratto -> [fn |-> "build_contratto", prefix |-> "Contratto_"]
    [] doc = CmdCarta     -> [fn |-> "build_lettera_carta", prefix |-> "Carta_"]
    [] doc = CmdGaranzia  -> [fn |-> "build_lettera_garanzia", prefix |-> "Garanzia_"]

\* the session's fields are the first ones of FieldOrder, and a build that is
\* under way was called for the stored doc_type: build_contratto and
\* build_lettera_carta with the whole session, all seven fields stored
C16_Complete ==
  /\ \E n \in 0..Len(FieldOrder) : DOMAIN Data(Solo) = FirstFields(n)
  /\ \A t \in tasks :
       /\ Has(Data(t.conv), "doc_type")
       /\ t.fn = KindOf(Data(t.conv)["doc_type"]).fn
       /\ t.fn \in {"build_contratto", "build_lettera_carta"}
            => (t.arg = Data(t.conv) /\ DOMAIN t.arg = FirstFields(Len(FieldOrder)))

\* a step stores fields over those already stored or empties the session,
\* and a document is sent under the name of the stored kind and name
C16_Step ==
  /\ (DOMAIN Data(Solo) \subseteq DOMAIN user_data'[UserOf(Solo)]
       \/ user_data'[UserOf(Solo)] = EmptyDict)
  /\ (DocsIn(log) = {} /\ DocsIn(log') # {})
       => \A i \in DocsIn(log') :
            /\ log'[i].what.file.prefix = KindOf(Data(Solo)["doc_type"]).prefix
            /\ log'[i].what.file.name =
                 (IF Data(Solo)["doc_type"] = CmdGaranzia
                    THEN Strip(upd.text) ELSE Data(Solo)["name"])
            /\ log'[i].what.file.ext = ".pdf"

\* C16: in a single conversation build_contratto and build_lettera_carta are
\* called with doc_type, name, amount, duration, tan, taeg and payment all
\* stored, in that order, since the last reset; the build function and the
\* prefix of the file name are those of the stored doc_type.
C16_FieldsBeforeBuild == []C16_Complete /\ [][C16_Step]_vars

\* build_lettera_carta is under way with the seven fields
C16_Witness ==
  \E t \in tasks :
    /\ t.fn = "build_lettera_carta" /\ t.phase = "build"
    /\ DOMAIN t.arg = FirstFields(7) /\ t.arg["doc_type"] = CmdCarta
    /\ t.arg["amount"] = 100000 /\ t.arg["duration"] = 12

----------------------------------------------------------------------------
\* the step stores a payment or another payment
PaymentWritten(u) ==
  /\ Has(user_data'[u], "payment")
  /\ Has(user_data[u], "payment") => user_data'[u]["payment"] # user_data[u]["payment"]

\* C17: the payment is stored only by ask_taeg, and it is
\* monthly_payment(amount, duration, tan) of the session as it was before
\* the reply: the TAEG reply has no part in it.
C17_PaymentDerived ==
  [][\A u \in Users :
       PaymentWritten(u) =>
         /\ tasks = {} /\ upd'.handler = "ask_taeg"
         /\ Has(user_data[u], "amount") /\ Has(user_data[u], "duration")
         /\ Has(user_data[u], "tan")
         /\ user_data'[u]["payment"] =
              monthly_payment(user_data[u]["amount"], user_data[u]["duration"],
                              user_data[u]["tan"])]_vars

\* a payment stored at the default TAN with a TAEG of zero
C17_Witness ==
  /\ upd.handler = "ask_taeg" /\ upd.text = <<"0">>
  /\ Has(user_data["u1"], "payment")
  /\ user_data["u1"]["taeg"] = 0 /\ user_data["u1"]["tan"] = DEFAULT_TAN
  /\ user_data["u1"]["amount"] = 100000 /\ user_data["u1"]["duration"] = 12
  /\ user_data["u1"]["payment"] > 0

----------------------------------------------------------------------------
RateHandler(st) == IF st = ASK_TAN THEN "ask_tan" ELSE "ask_taeg"

\* the last update was a rate reply on which float() raised
RateRaised(c) ==
  /\ upd.conv = c /\ upd.status = "raised"
  /\ upd.state \in {ASK_TAN, ASK_TAEG} /\ upd.handler = RateHandler(upd.state)
  /\ RateRaises(upd.text)

\* a rate reply that float() rejects changes nothing and is not answered
C18_Step ==
  \A c \in Conv : \A txt \in RateReplies :
    (conversations[c] \in {ASK_TAN, ASK_TAEG} /\ RateRaises(txt) /\ Dispatched(c, txt))
      => /\ upd'.handler = RateHandler(conversations[c])
         /\ upd'.status = "raised"
         /\ UNCHANGED <<conversations, user_data, stored_by, tasks>>
         /\ log' = <<>>

\* after it the conversation waits in the same state with no handler running
C18_Waits ==
  \A c \in Conv :
    RateRaised(c) => tasks = {} /\ conversations[c] = upd.state /\ log = <<>>

\* and there a rate is stored by the handler of the state, /cancel is taken
\* by cancel and /start by start
C18_Proceeds ==
  \A c \in Conv :
    RateRaised(c) =>
      /\ Dispatched(c, <<"0">>)
           => /\ upd'.handler = RateHandler(upd.state)
              /\ Has(user_data'[UserOf(c)], IF upd.state = ASK_TAN THEN "tan" ELSE "taeg")
              /\ user_data'[UserOf(c)][IF upd.state = ASK_TAN THEN "tan" ELSE "taeg"] = 0
              /\ upd.state = ASK_TAN => conversations'[c] = ASK_TAEG
      /\ Dispatched(c, CmdCancel)
           => upd'.handler = "cancel" /\ conversations'[c] = CHOOSING_DOC
      /\ Dispatched(c, CmdStart)
           => upd'.handler = "start" /\ conversations'[c] = CHOOSING_DOC

\* C18: a non-empty rate reply that float() rejects makes ask_tan and
\* ask_taeg raise before any write: the state and the session are unchanged,
\* no payment is computed, nothing is built, sent or replied, and the
\* conversation goes on with a later rate, /cancel or /start.
C18_BadRateRaises == []C18_Waits /\ [][C18_Step /\ C18_Proceeds]_vars

\* "abc" was sent as the TAEG and raised, the TAN being stored
C18_Witness ==
  /\ RateRaised(<<"c1", "u1">>) /\ upd.state = ASK_TAEG
  /\ upd.text = <<"a", "b", "c">>
  /\ Has(user_data["u1"], "tan") /\ ~Has(user_data["u1"], "taeg")
  /\ ~Has(user_data["u1"], "payment")

=============================================================================
